---------------------------- MODULE Spec2Model ----------------------------
(***************************************************************************)
(* Model of the log Investigator: the Flask job service of deep_code.py    *)
(* (process_large_logs, its background worker, get_status, get_results,    *)
(* export_results, process_logs), the FastAPI service of                   *)
(* fastapi_backend/api.py (upload_log, rescan, the index build thread,     *)
(* rag_status, status, query_log),                                         *)
(* and the three scanners: process_log_file of deep_code.py,               *)
(* _stream_scan_bytes of api.py, process_log_stream of log_filter.py.      *)
(*                                                                         *)
(* Text is a sequence of tokens.  Two neighbouring tokens of a line are    *)
(* separated by one blank; the token NL is the character "\n".  A regular  *)
(* expression of the source is modelled by what it accepts on the tokens   *)
(* of the alphabet (the tables WordsOf, IsStatus, ThreeDigitGroups,        *)
(* BracketTags, SubstringsOf, GroupAt).                                    *)
(***************************************************************************)
EXTENDS Integers, Sequences, FiniteSets, TLC

\* ------------------------------------------------------------------ bounds
MaxJobs == 2
MaxClock == 1
MaxUploads == 2
MaxRescans == 1
\* The caps of the source, scaled so that a bounded log exceeds them:
\* MaxResults stands for max_results = 10000 (deep_code.py:100), DisplayCap
\* for the [:1000] of deep_code.py:219/301, ReturnCap for the [:500] of
\* fastapi_backend/api.py:218/235.
MaxResults == 2
DisplayCap == 1
ReturnCap == 2
\* The longest line enumerated, in tokens.
MaxTokens == 3
\* ProgressEvery stands for the 10000 lines between two progress messages
\* of process_log_file (deep_code.py:150).
ProgressEvery == 2

\* ------------------------------------------------------------- text model
NL == "\n"
None == "None"
NoFile == "NoFile"

\* The tokens the lines of the bounded inputs are made of.
Words == {"ok", "ERROR", "timeout", "sql", "500", "200", "[E42]", "[e42]",
          "ERR_a1", "ERROR-b2", "code:c3", "code=d4", "Transaction"}

\* The upper-cased words of a token: its maximal runs of \w characters.  A
\* \bWORD\b pattern (re.IGNORECASE) is found in the token when WORD is one
\* of them.
WordsOf(t) ==
  CASE t = "ok" -> {"OK"}
    [] t = "ERROR" -> {"ERROR"}
    [] t = "timeout" -> {"TIMEOUT"}
    [] t = "sql" -> {"SQL"}
    [] t = "500" -> {"500"}
    [] t = "200" -> {"200"}
    [] t = "[E42]" -> {"E42"}
    [] t = "[e42]" -> {"E42"}
    [] t = "ERR_a1" -> {"ERR_A1"}
    [] t = "ERROR-b2" -> {"ERROR", "B2"}
    [] t = "code:c3" -> {"CODE", "C3"}
    [] t = "code=d4" -> {"CODE", "D4"}
    [] t = "Transaction" -> {"TRANSACTION"}
    [] t = "192.168.1.1" -> {"192", "168", "1"}
    [] t = "[15/Jan/2024:14:30:22" -> {"15", "JAN", "2024", "14", "30", "22"}
    [] t = "+0000]" -> {"0000"}
    [] t = "\"GET" -> {"GET"}
    [] t = "/api\"" -> {"API"}
    [] t = "1024" -> {"1024"}
    [] t = "2024-01-15" -> {"2024", "01", "15"}
    [] t = "14:30:22" -> {"14", "30", "22"}
    [] t = "PaymentService" -> {"PAYMENTSERVICE"}
    [] t = "failed:" -> {"FAILED"}
    [] OTHER -> {}

\* The token is exactly 5\d\d or 4\d\d.
IsStatus(t) == t \in {"500"}

\* The matches of \b(\d{3})\b in a token, from left to right.
ThreeDigitGroups(t) ==
  CASE t = "500" -> <<"500">>
    [] t = "200" -> <<"200">>
    [] t = "192.168.1.1" -> <<"192", "168">>
    [] OTHER -> <<>>

\* group(1).startswith(('4', '5'))
StartsWith45(m) == m \in {"500"}

\* The lower-cased contents of the [..] groups of a token.
BracketTags(t) ==
  CASE t = "[E42]" -> {"e42"}
    [] t = "[e42]" -> {"e42"}
    [] OTHER -> {}

\* str.upper() of a token a code pattern captures.
Upper(g) ==
  CASE g = "e42" -> "E42"
    [] g = "a1" -> "A1"
    [] g = "b2" -> "B2"
    [] g = "c3" -> "C3"
    [] g = "d4" -> "D4"
    [] OTHER -> g

Last(s) == s[Len(s)]
Front(s) == SubSeq(s, 1, Len(s) - 1)
Take(s, n) == SubSeq(s, 1, IF n < Len(s) THEN n ELSE Len(s))
Range(s) == {s[i] : i \in 1..Len(s)}
IsPrefix(p, s) == Len(p) <= Len(s) /\ SubSeq(s, 1, Len(p)) = p

\* "\n".join(lines)
RECURSIVE Join(_)
Join(lines) ==
  IF lines = <<>> THEN <<>>
  ELSE IF Len(lines) = 1 THEN lines[1]
  ELSE lines[1] \o <<NL>> \o Join(Tail(lines))

\* Iteration over a text stream (io.StringIO, a file opened for reading):
\* each line runs up to and including its "\n"; a last line without
\* "\n" is a line too; the empty text has no line.
RECURSIVE SplitFrom(_, _)
SplitFrom(text, cur) ==
  IF text = <<>> THEN (IF cur = <<>> THEN <<>> ELSE <<cur>>)
  ELSE IF Head(text) = NL THEN <<Append(cur, NL)>> \o SplitFrom(Tail(text), <<>>)
  ELSE SplitFrom(Tail(text), Append(cur, Head(text)))

\* SplitLines as text.split("\n") would cut: the empty text has one line.
SplitKeepEmpty(text) == IF text = <<>> THEN << <<>> >> ELSE SplitFrom(text, <<>>)

SplitLines(text) == SplitFrom(text, <<>>)

\* line.rstrip("\n")
RECURSIVE RStripNL(_)
\* RStripNL leaving the line as read.
RStripNone(line) == line

RStripNL(line) ==
  IF line # <<>> /\ Last(line) = NL THEN RStripNL(Front(line)) ELSE line

\* --------------------------------------------- fastapi_backend/api.py: scan
\* A signature: its regular expression, its label, and what the expression
\* accepts: a word (\bW\b, any of `words`), the status form \s(5\d\d|4\d\d)\s,
\* a [tag], or a form no token of the alphabet can spell (`never`).
Sig(pattern, label, kind, words) ==
  [pattern |-> pattern, label |-> label, kind |-> kind, words |-> words]

ERROR_PATTERNS ==
  << Sig("\\bERROR\\b", "General Error", "word", {"ERROR"}),
     Sig("\\bFAIL(ED)?\\b", "Failure", "word", {"FAIL", "FAILED"}),
     Sig("\\bEXCEPTION\\b", "Exception", "word", {"EXCEPTION"}),
     Sig("\\bCRITICAL\\b", "Critical Error", "word", {"CRITICAL"}),
     Sig("\\bFATAL\\b", "Fatal Error", "word", {"FATAL"}),
     Sig("\\bPANIC\\b", "System Panic", "word", {"PANIC"}),
     Sig("\\bTIMEOUT\\b", "Timeout", "word", {"TIMEOUT"}),
     Sig("\\bDENIED\\b", "Access Denied", "word", {"DENIED"}),
     Sig("\\bREJECTED\\b", "Request Rejected", "word", {"REJECTED"}),
     Sig("\\bABORT\\b", "Operation Aborted", "word", {"ABORT"}),
     Sig("\\bSEGMENTATION FAULT\\b", "Segmentation Fault", "never", {}),
     Sig("\\bOUT OF MEMORY\\b", "Out of Memory", "never", {}),
     Sig("\\bSTACK TRACE\\b", "Stack Trace", "never", {}),
     Sig("\\bTRACEBACK\\b", "Python Traceback", "word", {"TRACEBACK"}),
     Sig("\\bUNHANDLED\\b", "Unhandled Error", "word", {"UNHANDLED"}),
     Sig("HTTP/\\d\\.\\d\"\\s(5\\d\\d|4\\d\\d)", "HTTP Error", "never", {}),
     Sig("\\s(5\\d\\d|4\\d\\d)\\s", "HTTP Status Code", "status", {}),
     Sig("\\[error\\]", "Nginx/Apache Error", "tag", {"error"}),
     Sig("\\[emerg\\]", "Emergency Error", "tag", {"emerg"}),
     Sig("\\[crit\\]", "Critical Log", "tag", {"crit"}),
     Sig("\\[alert\\]", "Alert", "tag", {"alert"}) >>

AllPatterns == {ERROR_PATTERNS[i].pattern : i \in 1..Len(ERROR_PATTERNS)}

\* pat.search(line) for a compiled signature.  A status token needs white
\* space on both sides: a blank before it, and a blank or "\n" after it.
Search(sig, line) ==
  CASE sig.kind = "word" ->
         \E i \in 1..Len(line) : WordsOf(line[i]) \cap sig.words # {}
    [] sig.kind = "status" ->
         \E i \in 2..(Len(line) - 1) : IsStatus(line[i]) /\ line[i - 1] # NL
    [] sig.kind = "tag" ->
         \E i \in 1..Len(line) : BracketTags(line[i]) \cap sig.words # {}
    [] OTHER -> FALSE

CATEGORY_KEYWORDS ==
  << [cat |-> "database", kws |-> {"database", "sql", "mysql", "postgres",
        "oracle", "mongodb", "query", "transaction"}],
     [cat |-> "performance", kws |-> {"timeout", "slow", "latency",
        "performance", "bottleneck", "response time"}],
     [cat |-> "security", kws |-> {"auth", "authentication", "login",
        "password", "permission", "access", "unauthorized", "forbidden"}],
     [cat |-> "resource", kws |-> {"memory", "heap", "disk", "cpu",
        "resource", "out of memory", "oom", "disk full"}],
     [cat |-> "network", kws |-> {"network", "connection", "socket", "http",
        "https", "tcp", "udp", "connection refused"}],
     [cat |-> "io", kws |-> {"file", "io", "read", "write",
        "permission denied", "file not found", "eof"}],
     [cat |-> "application", kws |-> {"exception", "null pointer",
        "index out of bounds", "type error", "syntax error"}] >>

\* The category keywords that are substrings of the lower-cased token.
SubstringsOf(t) ==
  CASE t = "timeout" -> {"timeout"}
    [] t = "sql" -> {"sql"}
    [] t = "Transaction" -> {"transaction", "io"}
    [] OTHER -> {}

LineKeywords(line) == UNION {SubstringsOf(line[i]) : i \in 1..Len(line)}

\* FirstCategory letting the last rule that holds a keyword win.
LastCategory(rules, k, line) ==
  LET found == {j \in k..Len(rules) : rules[j].kws \cap LineKeywords(line) # {}}
  IN IF found = {} THEN "application"
     ELSE rules[CHOOSE j \in found : \A i \in found : i <= j].cat

RECURSIVE FirstCategory(_, _, _)
FirstCategory(rules, k, line) ==
  IF k > Len(rules) THEN "application"
  ELSE IF rules[k].kws \cap LineKeywords(line) # {} THEN rules[k].cat
  ELSE FirstCategory(rules, k + 1, line)

\* _categorize
Categorize(line) == FirstCategory(CATEGORY_KEYWORDS, 1, line)

\* re.search(r'\b(\d{3})\b', line): the first three-digit token of the
\* line, or None.
RECURSIVE FirstThreeDigits(_)
FirstThreeDigits(line) ==
  IF line = <<>> THEN None
  ELSE IF ThreeDigitGroups(Head(line)) # <<>> THEN ThreeDigitGroups(Head(line))[1]
  ELSE FirstThreeDigits(Tail(line))

\* The fallback patterns of _extract_code, in their order.
CODE_PATTERNS ==
  << "ERR[_-](\\w+)", "ERROR[_-](\\w+)", "code[:\\s]+(\\w+)",
     "error\\s+code\\s*[=:]\\s*(\\w+)", "\\[(\\w+)\\]" >>

\* group(1) of the match of a code pattern (re.IGNORECASE) that ends in
\* token i of the line, or None.  "error code" needs a token ending in
\* "error" before the blank.
GroupAt(p, line, i) ==
  LET t == line[i] IN
  CASE p \in {"ERR[_-](\\w+)", "ERR_(\\w+)"} ->
         IF t = "ERR_a1" THEN "a1" ELSE None
    [] p = "ERROR[_-](\\w+)" ->
         IF t = "ERROR-b2" THEN "b2" ELSE None
    [] p = "code[:\\s]+(\\w+)" ->
         IF t = "code:c3" THEN "c3" ELSE None
    [] p = "error\\s+code\\s*[=:]\\s*(\\w+)" ->
         IF i > 1 /\ line[i - 1] = "ERROR"
         THEN (CASE t = "code:c3" -> "c3" [] t = "code=d4" -> "d4" [] OTHER -> None)
         ELSE None
    [] p = "\\[(\\w+)\\]" ->
         (CASE t = "[E42]" -> "E42" [] t = "[e42]" -> "e42" [] OTHER -> None)
    [] OTHER -> None

\* re.search(p, line, re.IGNORECASE): group(1) of the leftmost match, or None.
RECURSIVE SearchGroup(_, _, _)
SearchGroup(p, line, i) ==
  IF i > Len(line) THEN None
  ELSE IF GroupAt(p, line, i) # None THEN GroupAt(p, line, i)
  ELSE SearchGroup(p, line, i + 1)

\* The loop over the code patterns: group(1) of the first pattern that is
\* found in the line, or None.
RECURSIVE FirstCode(_, _, _)
FirstCode(patterns, k, line) ==
  IF k > Len(patterns) THEN None
  ELSE IF SearchGroup(patterns[k], line, 1) # None
       THEN SearchGroup(patterns[k], line, 1)
  ELSE FirstCode(patterns, k + 1, line)

\* _extract_code: the HTTP rule on the first three-digit token, then the
\* fallback patterns in order, the captured token upper-cased.
ExtractCode(line) ==
  LET m == FirstThreeDigits(line)
      mm == FirstCode(CODE_PATTERNS, 1, line)
  IN IF m # None /\ StartsWith45(m) THEN "HTTP_" \o m
     ELSE IF mm # None THEN Upper(mm)
     ELSE None

\* FirstMatch without the break: the last selected signature found wins.
LastMatch(k, selected, line) ==
  LET found == {j \in k..Len(ERROR_PATTERNS) :
                  ERROR_PATTERNS[j].pattern \in selected /\ Search(ERROR_PATTERNS[j], line)}
  IN IF found = {} THEN 0 ELSE CHOOSE j \in found : \A i \in found : i <= j

\* The first signature, in registration order, among those selected, that
\* is found in the line; 0 when none is.
RECURSIVE FirstMatch(_, _, _)
FirstMatch(k, selected, line) ==
  IF k > Len(ERROR_PATTERNS) THEN 0
  ELSE IF ERROR_PATTERNS[k].pattern \in selected /\ Search(ERROR_PATTERNS[k], line)
       THEN k
  ELSE FirstMatch(k + 1, selected, line)

\* Bump recording that a key was seen, not how often.
BumpSeen(counter, key) ==
  [k \in DOMAIN counter \cup {key} |-> 1]

Bump(counter, key) ==
  IF key \in DOMAIN counter THEN [counter EXCEPT ![key] = @ + 1]
  ELSE [k \in DOMAIN counter \cup {key} |-> IF k = key THEN 1 ELSE counter[k]]

EmptyCounter == [k \in {} |-> 0]

EmptyScan ==
  [total_lines |-> 0, error_count |-> 0, errors |-> <<>>,
   categories |-> EmptyCounter, error_codes |-> EmptyCounter,
   pattern_matches |-> EmptyCounter]

\* One turn of the loop of _stream_scan_bytes on a line of the stream.
ScanLine(acc, rawline, selected) ==
  LET line == RStripNL(rawline)
      n == acc.total_lines + 1
      k == FirstMatch(1, selected, line)
      cat == Categorize(line)
      code == ExtractCode(line)
      errs == Append(acc.errors,
                [line_number |-> n, content |-> line, category |-> cat,
                 error_code |-> code,
                 matched_pattern |-> ERROR_PATTERNS[k].label])
  IN IF k = 0 THEN [acc EXCEPT !.total_lines = n]
     ELSE [total_lines |-> n, error_count |-> Len(errs), errors |-> errs,
           categories |-> Bump(acc.categories, cat),
           error_codes |-> IF code # None THEN Bump(acc.error_codes, code)
                           ELSE acc.error_codes,
           pattern_matches |-> Bump(acc.pattern_matches, ERROR_PATTERNS[k].label)]

RECURSIVE ScanLines(_, _, _)
ScanLines(acc, lines, selected) ==
  IF lines = <<>> THEN acc
  ELSE ScanLines(ScanLine(acc, Head(lines), selected), Tail(lines), selected)

\* _stream_scan_bytes
StreamScanBytes(raw_bytes, selected_patterns) ==
  ScanLines(EmptyScan, SplitLines(raw_bytes), selected_patterns)

\* ------------------------------------------------------ deep_code.py: scan
\* The signatures of deep_code.py are bare expressions; the record of a
\* match names the expression itself (pattern.pattern).
DeepSig(pattern, kind, words) == Sig(pattern, pattern, kind, words)

deep_ERROR_PATTERNS ==
  << DeepSig("\\bERROR\\b", "word", {"ERROR"}),
     DeepSig("\\bFAIL\\b", "word", {"FAIL"}),
     DeepSig("\\bFAILED\\b", "word", {"FAILED"}),
     DeepSig("\\bEXCEPTION\\b", "word", {"EXCEPTION"}),
     DeepSig("\\bCRITICAL\\b", "word", {"CRITICAL"}),
     DeepSig("\\bFATAL\\b", "word", {"FATAL"}),
     DeepSig("\\bPANIC\\b", "word", {"PANIC"}),
     DeepSig("\\bTIMEOUT\\b", "word", {"TIMEOUT"}),
     DeepSig("\\bDENIED\\b", "word", {"DENIED"}),
     DeepSig("\\bREJECTED\\b", "word", {"REJECTED"}),
     DeepSig("\\bABORT\\b", "word", {"ABORT"}),
     DeepSig("\\bSEGMENTATION FAULT\\b", "never", {}),
     DeepSig("\\bOUT OF MEMORY\\b", "never", {}),
     DeepSig("\\bSTACK TRACE\\b", "never", {}),
     DeepSig("\\bTRACEBACK\\b", "word", {"TRACEBACK"}),
     DeepSig("\\bUNHANDLED\\b", "word", {"UNHANDLED"}),
     DeepSig("\\bHTTP/\\d\\.\\d\"\\s(5\\d\\d|4\\d\\d)", "never", {}),
     DeepSig("\\s(5\\d\\d|4\\d\\d)\\s", "status", {}),
     DeepSig("\\[error\\]", "tag", {"error"}),
     DeepSig("\\[emerg\\]", "tag", {"emerg"}),
     DeepSig("\\[crit\\]", "tag", {"crit"}),
     DeepSig("\\[alert\\]", "tag", {"alert"}) >>

deep_CATEGORY_KEYWORDS ==
  << [cat |-> "database", kws |-> {"database", "sql", "mysql", "postgres", "query"}],
     [cat |-> "performance", kws |-> {"timeout", "slow", "latency", "performance"}],
     [cat |-> "resource", kws |-> {"memory", "heap", "disk", "cpu", "resource"}],
     [cat |-> "security", kws |-> {"auth", "login", "password", "permission", "access"}],
     [cat |-> "network", kws |-> {"network", "connection", "socket", "http"}],
     [cat |-> "io", kws |-> {"file", "io", "read", "write"}] >>

\* categorize_error of deep_code.py
deep_categorize_error(line) == FirstCategory(deep_CATEGORY_KEYWORDS, 1, line)

\* code_patterns of extract_error_code of deep_code.py
deep_code_patterns ==
  << "ERR_(\\w+)", "ERROR_(\\w+)", "code[:\\s]+(\\w+)", "\\[(\\w+)\\]" >>

\* extract_error_code of deep_code.py: the captured token is returned as it
\* stands in the line.
deep_extract_error_code(line) ==
  LET http_match == FirstThreeDigits(line) IN
  IF http_match # None /\ StartsWith45(http_match) THEN "HTTP_" \o http_match
  ELSE FirstCode(deep_code_patterns, 1, line)

\* line.strip(): the tokens of a line carry no blank of their own.
Strip(line) == SelectSeq(line, LAMBDA t : t # NL)

RECURSIVE DeepFirstMatch(_, _, _)
DeepFirstMatch(k, filters, line) ==
  IF k > Len(filters) THEN 0
  ELSE IF Search(filters[k], line) THEN k
  ELSE DeepFirstMatch(k + 1, filters, line)

\* The accumulators of process_log_file before the first line.
DeepEmpty ==
  [line_count |-> 0, error_count |-> 0, results |-> <<>>,
   categories |-> EmptyCounter, error_codes |-> EmptyCounter]

\* DeepScanLine with a loop that counts nothing once the cap is reached.
DeepScanLineStopAtCap(acc, line, filters, max_results) ==
  LET n == acc.line_count + 1
      k == DeepFirstMatch(1, filters, line)
      category == deep_categorize_error(line)
      error_code == deep_extract_error_code(line)
  IN IF k = 0 \/ acc.error_count >= max_results THEN [acc EXCEPT !.line_count = n]
     ELSE [line_count |-> n, error_count |-> acc.error_count + 1,
           results |-> Append(acc.results,
                         [line_number |-> n, content |-> Strip(line),
                          category |-> category, error_code |-> error_code,
                          matched_pattern |-> filters[k].pattern]),
           categories |-> Bump(acc.categories, category),
           error_codes |-> IF error_code # None
                           THEN Bump(acc.error_codes, error_code)
                           ELSE acc.error_codes]

\* One turn of the loop of process_log_file.  The line is searched as read,
\* with its "\n"; the stored content is stripped.
DeepScanLine(acc, line, filters, max_results) ==
  LET n == acc.line_count + 1
      k == DeepFirstMatch(1, filters, line)
      category == deep_categorize_error(line)
      error_code == deep_extract_error_code(line)
      ec == acc.error_count + 1
  IN IF k = 0 THEN [acc EXCEPT !.line_count = n]
     ELSE [line_count |-> n, error_count |-> ec,
           results |-> IF ec <= max_results
                       THEN Append(acc.results,
                              [line_number |-> n, content |-> Strip(line),
                               category |-> category, error_code |-> error_code,
                               matched_pattern |-> filters[k].pattern])
                       ELSE acc.results,
           categories |-> Bump(acc.categories, category),
           error_codes |-> IF error_code # None
                           THEN Bump(acc.error_codes, error_code)
                           ELSE acc.error_codes]

RECURSIVE DeepScanLines(_, _, _, _)
DeepScanLines(acc, lines, filters, max_results) ==
  IF lines = <<>> THEN acc
  ELSE DeepScanLines(DeepScanLine(acc, Head(lines), filters, max_results),
                     Tail(lines), filters, max_results)

\* The 'complete' message of process_log_file, the last one it yields.  The
\* error rate error_count / line_count * 100 is kept as the fraction
\* <<error_count * 100, line_count>>.
CompleteMessage(acc) ==
  [type |-> "complete", total_lines |-> acc.line_count,
   total_errors |-> acc.error_count, results |-> acc.results,
   categories |-> acc.categories, error_codes |-> acc.error_codes,
   error_rate |-> IF acc.line_count > 0
                  THEN <<acc.error_count * 100, acc.line_count>>
                  ELSE <<0, 1>>]

process_log_file(content, filters, max_results) ==
  CompleteMessage(DeepScanLines(DeepEmpty, SplitLines(content), filters, max_results))

\* YieldProgress with the test made before the line is counted.
YieldProgressEarly(acc) ==
  IF (acc.line_count + 1) % ProgressEvery = 0
  THEN <<[type |-> "progress", processed |-> acc.line_count,
          errors_found |-> acc.error_count]>>
  ELSE <<>>

\* The progress message at the end of a turn of the loop: one each time
\* the number of lines read is a multiple of the interval.
YieldProgress(acc) ==
  IF acc.line_count % ProgressEvery = 0
  THEN <<[type |-> "progress", processed |-> acc.line_count,
          errors_found |-> acc.error_count]>>
  ELSE <<>>

\* Every message process_log_file yields, in order: the progress messages
\* of the loop, then the 'complete' message.
RECURSIVE Yields(_, _, _, _)
Yields(acc, lines, filters, max_results) ==
  IF lines = <<>> THEN <<CompleteMessage(acc)>>
  ELSE LET a == DeepScanLine(acc, Head(lines), filters, max_results)
       IN YieldProgress(a) \o Yields(a, Tail(lines), filters, max_results)

\* ------------------------------------------------ backend/log_filter.py: scan
\* ERROR_PATTERNS of log_filter.py (lines 12-34) lists the pairs of
\* fastapi_backend/api.py, in the same order.
lf_ERROR_PATTERNS == ERROR_PATTERNS

\* category_keywords of categorize_error (lines 40-48): the rules of
\* CATEGORY_KEYWORDS of fastapi_backend/api.py, in the same order.
category_keywords == CATEGORY_KEYWORDS

\* categorize_error of log_filter.py
categorize_error(line) == FirstCategory(category_keywords, 1, line)

\* code_patterns of extract_error_code of log_filter.py
code_patterns ==
  << "ERR[_-](\\w+)", "ERROR[_-](\\w+)", "code[:\\s]+(\\w+)",
     "error\\s+code\\s*[=:]\\s*(\\w+)", "\\[(\\w+)\\]" >>

\* extract_error_code of log_filter.py
extract_error_code(line) ==
  LET http_match == FirstThreeDigits(line)
      match == FirstCode(code_patterns, 1, line)
  IN IF http_match # None /\ StartsWith45(http_match) THEN "HTTP_" \o http_match
     ELSE IF match # None THEN Upper(match)
     ELSE None

\* errors and stats of process_log_stream before the first line.
EmptyStream ==
  [errors |-> <<>>,
   stats |-> [total_lines |-> 0, error_count |-> 0, categories |-> EmptyCounter,
              error_codes |-> EmptyCounter, pattern_matches |-> EmptyCounter]]

\* StreamTurn on the line as read, its "\n" kept.
StreamTurnRaw(acc, rawline, selected_patterns) ==
  LET line_num == acc.stats.total_lines + 1
      k == FirstMatch(1, selected_patterns, rawline)
      category == categorize_error(rawline)
      error_code == extract_error_code(rawline)
  IN IF k = 0 THEN [acc EXCEPT !.stats.total_lines = line_num]
     ELSE [errors |-> Append(acc.errors,
                        [line_number |-> line_num, content |-> rawline,
                         category |-> category, error_code |-> error_code,
                         matched_pattern |-> lf_ERROR_PATTERNS[k].label]),
           stats |-> [total_lines |-> line_num,
                      error_count |-> acc.stats.error_count + 1,
                      categories |-> Bump(acc.stats.categories, category),
                      error_codes |-> IF error_code # None
                                      THEN Bump(acc.stats.error_codes, error_code)
                                      ELSE acc.stats.error_codes,
                      pattern_matches |-> Bump(acc.stats.pattern_matches,
                                               lf_ERROR_PATTERNS[k].label)]]

\* One turn of the loop of process_log_stream.  compiled_patterns holds the
\* pairs of ERROR_PATTERNS whose pattern is in selected_patterns.
StreamTurn(acc, rawline, selected_patterns) ==
  LET line == RStripNL(rawline)
      line_num == acc.stats.total_lines + 1
      k == FirstMatch(1, selected_patterns, line)
      category == categorize_error(line)
      error_code == extract_error_code(line)
  IN IF k = 0 THEN [acc EXCEPT !.stats.total_lines = line_num]
     ELSE [errors |-> Append(acc.errors,
                        [line_number |-> line_num, content |-> line,
                         category |-> category, error_code |-> error_code,
                         matched_pattern |-> lf_ERROR_PATTERNS[k].label]),
           stats |-> [total_lines |-> line_num,
                      error_count |-> acc.stats.error_count + 1,
                      categories |-> Bump(acc.stats.categories, category),
                      error_codes |-> IF error_code # None
                                      THEN Bump(acc.stats.error_codes, error_code)
                                      ELSE acc.stats.error_codes,
                      pattern_matches |-> Bump(acc.stats.pattern_matches,
                                               lf_ERROR_PATTERNS[k].label)]]

RECURSIVE StreamTurns(_, _, _)
StreamTurns(acc, lines, selected_patterns) ==
  IF lines = <<>> THEN acc
  ELSE StreamTurns(StreamTurn(acc, Head(lines), selected_patterns),
                   Tail(lines), selected_patterns)

\* process_log_stream
process_log_stream(text_stream, selected_patterns) ==
  StreamTurns(EmptyStream, SplitLines(text_stream), selected_patterns)

\* ------------------------------------------------------------------ state
VARIABLES
  clock,               \* deep_code: datetime.now(), in whole seconds
  jobs,                \* deep_code: the submissions and their worker threads
  uploads,             \* deep_code: the files of the directory uploads/
  processing_results,  \* deep_code: the job registry
  plog,                \* deep_code: the process_logs request in flight
  reply,               \* deep_code: the last response sent to a client
  state,               \* api: _state
  uploaded_logs,       \* api: the files of UPLOAD_DIR
  up,                  \* api: the upload_log request on the event loop
  handled,             \* api: the uploads handled, with their responses
  written,             \* api: the artifacts whose write has completed
  rs,                  \* api: the rescan requests of the thread pool
  rag,                 \* api: the index build threads
  sc,                  \* the scan of one input by one of the three scanners
  yielded,             \* deep_code: the messages process_log_file has yielded
  memo,                \* a scan that returned earlier (at most one), with
                       \* what it returned
  qr                   \* api: the query_log request and the last reply

flaskVars == <<clock, jobs, uploads, processing_results, plog, reply>>
apiVars == <<state, uploaded_logs, up, handled, written, rs, rag>>
scanVars == <<sc, yielded, memo>>
queryVars == <<qr>>
vars == <<clock, jobs, uploads, processing_results, plog, reply,
          state, uploaded_logs, up, handled, written, rs, rag, sc, yielded,
          memo, qr>>

\* A dict: a function whose domain is the set of keys present.
EmptyDict == [k \in {} |-> None]
Put(d, k, v) == [x \in DOMAIN d \cup {k} |-> IF x = k THEN v ELSE d[x]]
Del(d, k) == [x \in DOMAIN d \ {k} |-> d[x]]

\* ------------------------------------------------- deep_code.py: the jobs
Filenames == {"a.log", "b.log"}

LogA == <<"ok", NL, "ERROR", ",", "\"", "sql", NL, "ok", "500", NL>>
LogB == <<"timeout">>
Logs == {LogA, LogB, <<>>}
\* The uploads given to process_large_logs.
JobLogs == {LogA}

\* datetime.now().strftime('%Y%m%d_%H%M%S_'): the clock to the second.
Stamp(c) == "20240115_14302" \o ToString(c) \o "_"

\* job_id of process_large_logs
JobId(c, filename) == Stamp(c) \o filename

JobIds == {JobId(c, f) : c \in 0..MaxClock, f \in Filenames}

\* An id no submission can have been given.
UnknownId == "nosuchjob"

FlaskInit ==
  /\ clock = 0
  /\ jobs = <<>>
  /\ uploads = EmptyDict
  /\ processing_results = EmptyDict
  /\ plog = [pc |-> "idle"]
  /\ reply = [op |-> "none"]

\* A second passes.
Tick ==
  /\ clock < MaxClock
  /\ clock' = clock + 1
  /\ UNCHANGED <<jobs, uploads, processing_results, plog, reply>>

\* process_large_logs without a file part: 400.
SubmitNoFile ==
  /\ reply' = [op |-> "process-large", http |-> 400, error |-> "No file uploaded"]
  /\ UNCHANGED <<clock, jobs, uploads, processing_results, plog>>

\* process_large_logs: the job id, the upload saved under it, the worker
\* thread started, the id returned.
Submit(filename, content) ==
  LET job_id == JobId(clock, filename)
      n == Len(jobs) + 1
  IN /\ Len(jobs) < MaxJobs
     /\ uploads' = Put(uploads, job_id, [owner |-> n, content |-> content])
     /\ jobs' = Append(jobs, [job_id |-> job_id, filepath |-> job_id,
                              pc |-> "start", progress |-> None])
     /\ reply' = [op |-> "process-large", http |-> 200, job_id |-> job_id]
     /\ UNCHANGED <<clock, processing_results, plog>>

\* WorkerScan with a handler that drops the failure (except: pass).
WorkerScanSilent(i) ==
  /\ i \in 1..Len(jobs)
  /\ jobs[i].pc = "start"
  /\ IF jobs[i].filepath \notin DOMAIN uploads
     THEN jobs' = [jobs EXCEPT ![i].pc = "done"]
     ELSE \E readable \in BOOLEAN :
            IF readable
            THEN jobs' = [jobs EXCEPT ![i].pc = "scanned",
                      ![i].progress = process_log_file(
                         uploads[jobs[i].filepath].content,
                         deep_ERROR_PATTERNS, MaxResults)]
            ELSE jobs' = [jobs EXCEPT ![i].pc = "done"]
  /\ UNCHANGED <<clock, uploads, processing_results, plog, reply>>

\* The worker opens its file and scans it.  A file that is gone, or a read
\* that fails, raises; the handler of the worker stores the error.
WorkerScan(i) ==
  /\ i \in 1..Len(jobs)
  /\ jobs[i].pc = "start"
  /\ IF jobs[i].filepath \notin DOMAIN uploads
     THEN /\ processing_results' =
               Put(processing_results, jobs[i].job_id, [error |-> "FileNotFoundError"])
          /\ jobs' = [jobs EXCEPT ![i].pc = "done"]
     ELSE \E readable \in BOOLEAN :
            IF readable
            THEN /\ jobs' = [jobs EXCEPT ![i].pc = "scanned",
                      ![i].progress = process_log_file(
                         uploads[jobs[i].filepath].content,
                         deep_ERROR_PATTERNS, MaxResults)]
                 /\ UNCHANGED processing_results
            ELSE /\ processing_results' =
                      Put(processing_results, jobs[i].job_id, [error |-> "OSError"])
                 /\ jobs' = [jobs EXCEPT ![i].pc = "done"]
  /\ UNCHANGED <<clock, uploads, plog, reply>>

\* processing_results[job_id] = progress
WorkerStore(i) ==
  /\ i \in 1..Len(jobs)
  /\ jobs[i].pc = "scanned"
  /\ processing_results' = Put(processing_results, jobs[i].job_id, jobs[i].progress)
  /\ jobs' = [jobs EXCEPT ![i].pc = "stored"]
  /\ UNCHANGED <<clock, uploads, plog, reply>>

\* os.unlink(filepath); when the file is gone it raises, and the handler of
\* the worker stores the error over the result.
WorkerUnlink(i) ==
  /\ i \in 1..Len(jobs)
  /\ jobs[i].pc = "stored"
  /\ IF jobs[i].filepath \in DOMAIN uploads
     THEN /\ uploads' = Del(uploads, jobs[i].filepath)
          /\ UNCHANGED processing_results
     ELSE /\ processing_results' =
               Put(processing_results, jobs[i].job_id, [error |-> "FileNotFoundError"])
          /\ UNCHANGED uploads
  /\ jobs' = [jobs EXCEPT ![i].pc = "done"]
  /\ UNCHANGED <<clock, plog, reply>>

\* get_status
get_status(job_id) ==
  IF job_id \in DOMAIN processing_results
  THEN [http |-> 200, status |-> "complete", result_available |-> TRUE]
  ELSE [http |-> 200, status |-> "processing"]

\* The body get_results returns for a completed result (lines 293-303).
ResultsBody(result) ==
  [http |-> 200, success |-> TRUE,
   summary |-> [total_lines |-> result.total_lines,
                total_errors |-> result.total_errors,
                error_rate |-> result.error_rate,
                categories |-> result.categories],
   errors |-> Take(result.results, DisplayCap),
   has_more |-> Len(result.results) > DisplayCap]

\* get_results
get_results(job_id) ==
  IF job_id \notin DOMAIN processing_results
  THEN [http |-> 404, error |-> "Job not found or still processing"]
  ELSE LET result == processing_results[job_id] IN
       IF "error" \in DOMAIN result
       THEN [http |-> 500, error |-> result.error]
       ELSE ResultsBody(result)

\* The content field of a CSV row: '"' doubled, ',' turned into ';'.  No
\* token of the alphabet holds either character.
Quote == "\""

\* content.replace('"', '""').replace(',', ';') on the tokens of a content:
\* every double quote is doubled, every comma becomes a semicolon.
CsvContent(content) ==
  [k \in 1..Len(content) |->
     CASE content[k] = Quote -> "\"\""
       [] content[k] = "," -> ";"
       [] content[k] = "\"GET" -> "\"\"GET"
       [] content[k] = "/api\"" -> "/api\"\""
       [] OTHER -> content[k]]

\* The row of a record: three bare fields and the content between double
\* quotes.  A CSV text is a sequence of fragments; the fragments of a
\* content are its tokens.
CsvRow(error) ==
  <<ToString(error.line_number), ",", error.category, ",", error.error_code,
    ",", Quote>> \o CsvContent(error.content) \o <<Quote>>

CsvHeader == <<"Line Number", ",", "Category", ",", "Error Code", ",", "Content">>

\* export_results: result['results'] of an entry that holds only an error
\* raises KeyError, which nothing catches.
export_results(job_id) ==
  IF job_id \notin DOMAIN processing_results
  THEN [http |-> 404, error |-> "Job not found"]
  ELSE LET result == processing_results[job_id] IN
       IF "results" \notin DOMAIN result
       THEN [raised |-> "KeyError"]
       ELSE [http |-> 200,
             csv |-> Join(<<CsvHeader>> \o
                          [k \in 1..Len(result.results) |->
                             CsvRow(result.results[k])])]

QueryIds == JobIds \cup {UnknownId}

GetStatus(job_id) ==
  /\ reply' = [op |-> "status", job_id |-> job_id, body |-> get_status(job_id)]
  /\ UNCHANGED <<clock, jobs, uploads, processing_results, plog>>

GetResults(job_id) ==
  /\ reply' = [op |-> "results", job_id |-> job_id, body |-> get_results(job_id)]
  /\ UNCHANGED <<clock, jobs, uploads, processing_results, plog>>

ExportResults(job_id) ==
  /\ reply' = [op |-> "export", job_id |-> job_id, body |-> export_results(job_id)]
  /\ UNCHANGED <<clock, jobs, uploads, processing_results, plog>>

\* ------------------------------------------- deep_code.py: process_logs
\* The 'filters' form field, already cut at its commas.
FilterForms == {<<"">>, <<" TIMEOUT ", "">>, <<"\\bTIMEOUT\\b", "\\bERROR\\b">>, <<"(">>}

\* f.strip()
StripItem(f) ==
  CASE f = " TIMEOUT " -> "TIMEOUT"
    [] OTHER -> f

\* [f.strip() for f in custom_filters if f.strip()]
CustomFilters(form) ==
  LET stripped == [k \in 1..Len(form) |-> StripItem(form[k])]
  IN SelectSeq(stripped, LAMBDA f : f # "")

\* re.compile(pattern, re.IGNORECASE) of a custom expression: "(" does not
\* compile; an expression of ERROR_PATTERNS is that signature; a bare word
\* is found wherever a token spells it.
CompileCustom(f) ==
  IF f = "(" THEN DeepSig(f, "invalid", {})
  ELSE IF \E k \in 1..Len(deep_ERROR_PATTERNS) : deep_ERROR_PATTERNS[k].pattern = f
       THEN deep_ERROR_PATTERNS[CHOOSE k \in 1..Len(deep_ERROR_PATTERNS) :
                                  deep_ERROR_PATTERNS[k].pattern = f]
  ELSE DeepSig(f, "word", {f})

\* filters = custom_filters if custom_filters else ERROR_PATTERNS
ChooseFilters(form) ==
  LET custom == CustomFilters(form)
  IN IF custom # <<>> THEN [k \in 1..Len(custom) |-> CompileCustom(custom[k])]
     ELSE deep_ERROR_PATTERNS

\* process_logs without a file, or with an empty file name: 400.
ProcessLogsNoFile ==
  /\ plog.pc = "idle"
  /\ \E msg \in {"No file uploaded", "No file selected"} :
       reply' = [op |-> "process", http |-> 400, error |-> msg]
  /\ UNCHANGED <<clock, jobs, uploads, processing_results, plog>>

\* process_logs, lines 182-192: the filters chosen, the upload saved to a
\* temporary file of its own.
ProcessLogsSave(content, form) ==
  /\ plog.pc = "idle"
  /\ plog' = [pc |-> "saved", temp |-> content, filters |-> ChooseFilters(form)]
  /\ UNCHANGED <<clock, jobs, uploads, processing_results, reply>>

\* The body process_logs returns for a result (lines 206-222).
ProcessLogsBody(result) ==
  [http |-> 200, success |-> TRUE,
   summary |-> [total_lines |-> result.total_lines,
                total_errors |-> result.total_errors,
                error_rate |-> result.error_rate,
                categories |-> result.categories,
                top_error_codes |-> result.error_codes],
   errors |-> Take(result.results, DisplayCap),
   has_more |-> Len(result.results) > DisplayCap,
   total_results |-> Len(result.results)]

\* process_logs, lines 194-230: the scan; the temporary file removed on the
\* way out of the try block and on the way out of its handler.
ProcessLogsRun ==
  /\ plog.pc = "saved"
  /\ \E readable \in BOOLEAN :
       LET filters == plog.filters
           bad == \E k \in 1..Len(filters) : filters[k].kind = "invalid"
           result == process_log_file(plog.temp, filters, MaxResults)
       IN IF bad \/ ~readable
          THEN /\ reply' = [op |-> "process", http |-> 500,
                            error |-> IF bad THEN "re.error" ELSE "OSError"]
               /\ plog' = [pc |-> "idle"]
          ELSE /\ reply' = [op |-> "process"] @@ ProcessLogsBody(result)
               /\ plog' = [pc |-> "idle"]
  /\ UNCHANGED <<clock, jobs, uploads, processing_results>>

\* The temporary whole-file copies on disk.
TempFiles == IF plog.pc = "saved" THEN {plog.temp} ELSE {}

\* The submissions and the steps of their workers.
JobNext ==
  \/ Tick
  \/ \E f \in Filenames, c \in JobLogs : Submit(f, c)
  \/ \E i \in 1..MaxJobs : WorkerScan(i)
  \/ \E i \in 1..MaxJobs : WorkerStore(i)
  \/ \E i \in 1..MaxJobs : WorkerUnlink(i)

\* The requests that only answer.
QueryNext ==
  \/ SubmitNoFile
  \/ \E j \in QueryIds : GetStatus(j)
  \/ \E j \in QueryIds : GetResults(j)
  \/ \E j \in QueryIds : ExportResults(j)

SyncNext ==
  \/ ProcessLogsNoFile
  \/ \E c \in Logs, form \in FilterForms : ProcessLogsSave(c, form)
  \/ ProcessLogsRun

FlaskNext == JobNext \/ QueryNext

\* ------------------------------------- fastapi_backend/api.py: requests
UploadNames == {"a.log", "x/a.log", "b.log"}

\* Path(file.filename).name
BaseName(filename) == IF filename = "x/a.log" THEN "a.log" ELSE filename

ApiLogA == <<"ok", NL, "ERROR", "sql", "timeout", NL, "ok", "500", "ok", NL, "timeout">>
ApiLogB == <<"[E42]", "ERROR", NL, "ok", NL>>
ApiLogs == {ApiLogA, ApiLogB}

\* The 'patterns' of a rescan request.
RescanPatterns == {AllPatterns, {"\\bTIMEOUT\\b", "nosuchpattern"}, {}}

IdleUpload == [pc |-> "idle"]
IdleRescan == [pc |-> "idle", patterns |-> {}, saved_path |-> None, raw_bytes |-> <<>>]

NoChain == [text |-> <<>>, source |-> None]

ApiInit ==
  /\ state = [qa_chain |-> NoChain, filename |-> None, saved_path |-> None,
              rag_status |-> "idle", rag_error |-> None]
  /\ uploaded_logs = EmptyDict
  /\ up = IdleUpload
  /\ handled = <<>>
  /\ written = {}
  /\ rs = [r \in 1..MaxRescans |-> IdleRescan]
  /\ rag = <<>>

\* [e["content"] for e in result["errors"]]
Contents(errors) == [k \in 1..Len(errors) |-> errors[k].content]

\* upload_log, lines 195-208: the name, the state marked as building, the
\* scan of the whole upload in memory, the matched lines.
UploadBegin(filename, raw_bytes) ==
  LET safe_name == BaseName(filename)
      result == StreamScanBytes(raw_bytes, AllPatterns)
  IN /\ up.pc = "idle"
     /\ Len(handled) < MaxUploads
     /\ state' = [state EXCEPT !.filename = safe_name, !.rag_status = "building",
                               !.rag_error = None]
     /\ up' = [pc |-> "scanned", safe_name |-> safe_name, raw_bytes |-> raw_bytes,
               result |-> result, error_lines |-> Contents(result.errors)]
     /\ UNCHANGED <<uploaded_logs, handled, written, rs, rag>>

\* ArtifactText writing only the records returned to the caller.
ArtifactTextCapped(error_lines) == Join(Take(error_lines, ReturnCap))

\* The text write_text is given.
ArtifactText(error_lines) == Join(error_lines)

\* write_text opens the file for writing: it exists and is empty.
UploadOpen ==
  /\ up.pc = "scanned"
  /\ uploaded_logs' = Put(uploaded_logs, up.safe_name, <<>>)
  /\ up' = [up EXCEPT !.pc = "writing"]
  /\ UNCHANGED <<state, handled, written, rs, rag>>

\* A part of the text reaches the file: a reader finds a longer prefix.
UploadFlush ==
  /\ up.pc = "writing"
  /\ \E k \in (Len(uploaded_logs[up.safe_name]) + 1)..(Len(ArtifactText(up.error_lines)) - 1) :
       uploaded_logs' = Put(uploaded_logs, up.safe_name,
                            Take(ArtifactText(up.error_lines), k))
  /\ UNCHANGED <<state, up, handled, written, rs, rag>>

\* write_text returns: the whole text is in the file.
UploadClose ==
  /\ up.pc = "writing"
  /\ uploaded_logs' = Put(uploaded_logs, up.safe_name, ArtifactText(up.error_lines))
  /\ written' = written \cup {<<up.safe_name, ArtifactText(up.error_lines)>>}
  /\ up' = [up EXCEPT !.pc = "written"]
  /\ UNCHANGED <<state, handled, rs, rag>>

\* _state["saved_path"] = saved_path
UploadSetPath ==
  /\ up.pc = "written"
  /\ state' = [state EXCEPT !.saved_path = up.safe_name]
  /\ up' = [up EXCEPT !.pc = "stored"]
  /\ UNCHANGED <<uploaded_logs, handled, written, rs, rag>>

\* The response of upload_log: the scan with its records cut to the cap.
UploadResponse(result, safe_name) ==
  [total_lines |-> result.total_lines, error_count |-> result.error_count,
   errors |-> Take(result.errors, ReturnCap), categories |-> result.categories,
   error_codes |-> result.error_codes, pattern_matches |-> result.pattern_matches,
   filename |-> safe_name, rag_status |-> "building"]

\* upload_log, lines 212-219: the build thread started, the result returned.
UploadReturn ==
  /\ up.pc = "stored"
  /\ rag' = Append(rag, [pc |-> "start", error_lines |-> up.error_lines,
                         filename |-> up.safe_name])
  /\ handled' = Append(handled, [filename |-> up.safe_name, raw_bytes |-> up.raw_bytes,
                                 response |-> UploadResponse(up.result, up.safe_name)])
  /\ up' = IdleUpload
  /\ UNCHANGED <<state, uploaded_logs, written, rs>>

\* rescan, lines 228-230: the path read from the state; no path, or no file
\* at it, is answered 400.
RescanBegin(r, patterns) ==
  /\ rs[r].pc = "idle"
  /\ LET saved_path == state.saved_path IN
       IF saved_path = None \/ saved_path \notin DOMAIN uploaded_logs
       THEN rs' = [rs EXCEPT ![r] = IdleRescan]
       ELSE rs' = [rs EXCEPT ![r] = [IdleRescan EXCEPT !.pc = "checked",
                                        !.patterns = patterns,
                                        !.saved_path = saved_path]]
  /\ UNCHANGED <<state, uploaded_logs, up, handled, written, rag>>

\* Path(saved_path).read_bytes(): what the file holds now.
RescanRead(r) ==
  /\ rs[r].pc = "checked"
  /\ rs' = [rs EXCEPT ![r].pc = "read",
                      ![r].raw_bytes = uploaded_logs[rs[r].saved_path]]
  /\ UNCHANGED <<state, uploaded_logs, up, handled, written, rag>>

\* The response of rescan.
RescanResponse(result, filename) ==
  [http |-> 200, total_lines |-> result.total_lines,
   error_count |-> result.error_count, errors |-> Take(result.errors, ReturnCap),
   categories |-> result.categories, error_codes |-> result.error_codes,
   pattern_matches |-> result.pattern_matches, filename |-> filename]

\* rescan, lines 233-236, for a request that has read its bytes: the scan
\* of what was read, the file name taken from the state as it is now, the
\* records cut to the cap.
RescanReply(r) ==
  RescanResponse(StreamScanBytes(rs[r].raw_bytes, rs[r].patterns), state.filename)

\* rescan returns RescanReply(r); the request is over.
RescanFinish(r) ==
  /\ rs[r].pc = "read"
  /\ rs' = [rs EXCEPT ![r] = IdleRescan]
  /\ UNCHANGED <<state, uploaded_logs, up, handled, written, rag>>

\* _build_rag_in_background, lines 147-148
BuildBegin(i) ==
  /\ i \in 1..Len(rag)
  /\ rag[i].pc = "start"
  /\ state' = [state EXCEPT !.rag_status = "building", !.qa_chain = NoChain]
  /\ rag' = [rag EXCEPT ![i].pc = "building"]
  /\ UNCHANGED <<uploaded_logs, up, handled, written, rs>>

\* The chain retriever(doc) builds from the joined lines and their source.
\* NoChain is the None of _state["qa_chain"].
Chain(error_lines, filename) == [text |-> Join(error_lines), source |-> filename]

\* _build_rag_in_background, lines 150-152 and 154-156: the chain built and
\* installed, or the failure of the build recorded.
BuildChain(i) ==
  /\ i \in 1..Len(rag)
  /\ rag[i].pc = "building"
  /\ \E built \in BOOLEAN :
       IF built
       THEN /\ state' = [state EXCEPT !.qa_chain = Chain(rag[i].error_lines, rag[i].filename)]
            /\ rag' = [rag EXCEPT ![i].pc = "installed"]
       ELSE /\ state' = [state EXCEPT !.rag_status = "error", !.rag_error = "Exception"]
            /\ rag' = [rag EXCEPT ![i].pc = "done"]
  /\ UNCHANGED <<uploaded_logs, up, handled, written, rs>>

\* _build_rag_in_background, line 153
BuildReady(i) ==
  /\ i \in 1..Len(rag)
  /\ rag[i].pc = "installed"
  /\ state' = [state EXCEPT !.rag_status = "ready"]
  /\ rag' = [rag EXCEPT ![i].pc = "done"]
  /\ UNCHANGED <<uploaded_logs, up, handled, written, rs>>

\* GET /rag-status
rag_status ==
  [status |-> state.rag_status, filename |-> state.filename,
   saved |-> state.saved_path # None /\ state.saved_path \in DOMAIN uploaded_logs,
   error |-> state.rag_error]

\* GET /status
status ==
  [ready |-> state.rag_status = "ready", filename |-> state.filename,
   saved |-> state.saved_path # None /\ state.saved_path \in DOMAIN uploaded_logs]

Questions == {"why"}
StillBuilding == [http |-> 202, detail |-> "RAG index is still building"]
NoLog == [http |-> 400, detail |-> "No log uploaded yet."]
QueryFailed == [http |-> 500, detail |-> "LLM query failed"]
NoReply == [http |-> 0, detail |-> "none"]
IdleQuery == [pc |-> "idle", question |-> None, reply |-> NoReply]
QueryInit == qr = IdleQuery

\* query(qa_chain, question) of backend/query.py: the answer of the chain,
\* which is the chain's own; an exception of the chain (a chain that is
\* None has no invoke) is answered 500 by query_log.
Query(qa_chain, question) ==
  IF qa_chain = NoChain THEN {QueryFailed}
  ELSE {[http |-> 200, answer |-> [chain |-> qa_chain, query |-> question]],
        QueryFailed}

\* query_log, line 261: the status read; 'building' is answered 202.
QueryStatus(question) ==
  /\ qr.pc = "idle"
  /\ qr' = IF state.rag_status = "building"
           THEN [pc |-> "idle", question |-> question, reply |-> StillBuilding]
           ELSE [pc |-> "checked", question |-> question, reply |-> NoReply]
  /\ UNCHANGED apiVars

\* query_log, line 263: the chain read; no chain is answered 400.
QueryChain ==
  /\ qr.pc = "checked"
  /\ qr' = IF state.qa_chain = NoChain
           THEN [qr EXCEPT !.pc = "idle", !.reply = NoLog]
           ELSE [qr EXCEPT !.pc = "forward"]
  /\ UNCHANGED apiVars

\* query_log, lines 265-268: the chain read again and asked.
QueryForward ==
  /\ qr.pc = "forward"
  /\ \E response \in Query(state.qa_chain, qr.question) :
       qr' = [qr EXCEPT !.pc = "idle", !.reply = response]
  /\ UNCHANGED apiVars

QueryLogNext ==
  \/ \E question \in Questions : QueryStatus(question)
  \/ QueryChain
  \/ QueryForward

\* upload_log on the event loop, one request at a time.
UploadNext ==
  \/ \E f \in UploadNames, b \in ApiLogs : UploadBegin(f, b)
  \/ UploadOpen
  \/ UploadClose
  \/ UploadSetPath
  \/ UploadReturn

\* The uploads and the rescans of the thread pool.
ApiNext ==
  \/ UploadNext
  \/ UploadFlush
  \/ \E r \in 1..MaxRescans, ps \in RescanPatterns : RescanBegin(r, ps)
  \/ \E r \in 1..MaxRescans : RescanRead(r)
  \/ \E r \in 1..MaxRescans : RescanFinish(r)

\* The uploads and their build threads.
BuildNext ==
  \/ \E i \in 1..MaxUploads : BuildBegin(i)
  \/ \E i \in 1..MaxUploads : BuildChain(i)
  \/ \E i \in 1..MaxUploads : BuildReady(i)

RagNext ==
  \/ UploadNext /\ UNCHANGED queryVars
  \/ BuildNext /\ UNCHANGED queryVars
  \/ QueryLogNext

\* ------------------------------------------------------ the three scanners
\* _stream_scan_bytes of fastapi_backend/api.py, process_log_stream of
\* backend/log_filter.py and process_log_file of deep_code.py (called by
\* process_logs with the filters of its form), each on an input of its own.
Scanners == {"api", "log_filter", "deep_code"}

\* list(ERROR_PATTERNS.keys())
PatternList == [k \in 1..Len(ERROR_PATTERNS) |-> ERROR_PATTERNS[k].pattern]

\* The selected_patterns a caller gives, as the caller lists them.
Selections ==
  {PatternList, <<"\\bTIMEOUT\\b", "nosuchpattern", "\\bERROR\\b">>, <<>>}

\* The 'filters' forms given to process_logs that compile.
ScanForms == FilterForms \ {<<"(">>}

SelectionsOf(scanner) == IF scanner = "deep_code" THEN ScanForms ELSE Selections

\* The inputs scanned line by line.
ScanLogA ==
  <<"ok", NL, "ERROR", "sql", "timeout", NL, "timeout", "500", "ok", NL,
    "[e42]", "ERROR", NL, "ok", "500", NL, "timeout">>
ScanLogB == <<"ERROR", "timeout", NL, "ok", NL>>
ScanLogs == {ScanLogA, ScanLogB, <<>>}

\* The access-log line and the application-log line of the reference
\* scenarios.
AccessLine ==
  <<"192.168.1.1", "-", "-", "[15/Jan/2024:14:30:22", "+0000]", "\"GET",
    "/api\"", "500", "1024">>
PaymentLine ==
  <<"2024-01-15", "14:30:22", "ERROR", "PaymentService", "-", "Transaction",
    "failed:", "timeout">>

\* The lines of at most MaxTokens tokens, and the two reference lines.
LinesOfLen(n) == [1..n -> Words]
Lines == UNION {LinesOfLen(n) : n \in 1..MaxTokens} \cup {AccessLine, PaymentLine}

IdleScan ==
  [pc |-> "idle", scanner |-> None, selected |-> <<>>, text |-> <<>>,
   rest |-> <<>>, acc |-> None]

ScanInit == sc = IdleScan /\ yielded = <<>> /\ memo = <<>>

\* EmptyOf with accumulators that live across calls.
EmptyOfKept(scanner) ==
  IF sc.pc # "idle" /\ sc.scanner = scanner THEN sc.acc
  ELSE CASE scanner = "api" -> EmptyScan
         [] scanner = "log_filter" -> EmptyStream
         [] scanner = "deep_code" -> DeepEmpty

\* The accumulators of a scanner before the first line.
EmptyOf(scanner) ==
  CASE scanner = "api" -> EmptyScan
    [] scanner = "log_filter" -> EmptyStream
    [] scanner = "deep_code" -> DeepEmpty

\* One turn of the loop of a scanner.
Turn(scanner, acc, rawline, selected) ==
  CASE scanner = "api" -> ScanLine(acc, rawline, Range(selected))
    [] scanner = "log_filter" -> StreamTurn(acc, rawline, Range(selected))
    [] scanner = "deep_code" ->
         DeepScanLine(acc, rawline, ChooseFilters(selected), MaxResults)

\* The whole scan of a text.
ScanOf(scanner, text, selected) ==
  CASE scanner = "api" -> StreamScanBytes(text, Range(selected))
    [] scanner = "log_filter" -> process_log_stream(text, Range(selected))
    [] scanner = "deep_code" ->
         DeepScanLines(DeepEmpty, SplitLines(text), ChooseFilters(selected), MaxResults)

\* A scan begins: the accumulators are empty, no line has been read.
ScanBegin(scanner, text, selected) ==
  /\ sc.pc \in {"idle", "done"}
  /\ sc' = [pc |-> "scanning", scanner |-> scanner, selected |-> selected,
            text |-> text, rest |-> SplitLines(text), acc |-> EmptyOf(scanner)]
  /\ yielded' = <<>>
  /\ \/ UNCHANGED memo
     \/ /\ sc.pc = "done"
        /\ memo' = <<[scanner |-> sc.scanner, text |-> sc.text,
                      selected |-> sc.selected, acc |-> sc.acc]>>

\* The loop reads the next line.
ScanTurn ==
  /\ sc.pc = "scanning"
  /\ sc.rest # <<>>
  /\ sc' = [sc EXCEPT !.acc = Turn(sc.scanner, sc.acc, Head(sc.rest), sc.selected),
                      !.rest = Tail(sc.rest)]
  /\ yielded' = IF sc.scanner = "deep_code"
                THEN yielded \o YieldProgress(sc'.acc)
                ELSE yielded
  /\ UNCHANGED memo

\* The input is exhausted: the scan returns.
ScanEnd ==
  /\ sc.pc = "scanning"
  /\ sc.rest = <<>>
  /\ sc' = [sc EXCEPT !.pc = "done"]
  /\ yielded' = IF sc.scanner = "deep_code"
                THEN Append(yielded, CompleteMessage(sc.acc))
                ELSE yielded
  /\ UNCHANGED memo

\* The scan of a one-line input, from its call to its return.
ScanOneLine(scanner, line, selected) ==
  /\ sc.pc = "idle"
  /\ sc' = [pc |-> "done", scanner |-> scanner, selected |-> selected,
            text |-> Append(line, NL), rest |-> <<>>,
            acc |-> ScanOf(scanner, Append(line, NL), selected)]
  /\ yielded' = IF scanner = "deep_code"
                THEN Yields(DeepEmpty, SplitLines(Append(line, NL)),
                            ChooseFilters(selected), MaxResults)
                ELSE <<>>
  /\ UNCHANGED memo

ScanNext ==
  \/ \E scanner \in Scanners, text \in ScanLogs :
       \E selected \in SelectionsOf(scanner) : ScanBegin(scanner, text, selected)
  \/ ScanTurn
  \/ ScanEnd

\* Each one-line scan starts from the idle state.
ClassifyNext ==
  /\ sc.pc = "idle"
  /\ \E scanner \in Scanners, line \in Lines :
       \E selected \in SelectionsOf(scanner) : ScanOneLine(scanner, line, selected)

\* ---------------------------------------------------------- specifications
Init == FlaskInit /\ ApiInit /\ ScanInit /\ QueryInit

\* The Flask service of deep_code.py: the jobs, their workers, the queries.
Next == FlaskNext /\ UNCHANGED <<apiVars, scanVars, queryVars>>
Spec == Init /\ [][Next]_vars

\* The jobs of deep_code.py under fair scheduling of each worker thread.
\* The queries write only `reply`, which no step of a job reads.
Fairness ==
  \A i \in 1..MaxJobs :
    WF_vars((WorkerScan(i) \/ WorkerStore(i) \/ WorkerUnlink(i))
              /\ UNCHANGED <<apiVars, scanVars, queryVars>>)
LiveSpec == Init /\ [][JobNext /\ UNCHANGED <<apiVars, scanVars, queryVars>>]_vars /\ Fairness

\* The files of fastapi_backend/api.py: upload_log and rescan.  The steps
\* of the build threads are those of SpecRag: they write only qa_chain,
\* rag_status and rag_error, which no step of upload_log or rescan reads.
SpecApi ==
  Init /\ [][ApiNext /\ UNCHANGED <<flaskVars, scanVars, queryVars>>]_vars

\* The index of fastapi_backend/api.py: upload_log, its build threads and
\* the queries of the chain.
SpecRag == Init /\ [][RagNext /\ UNCHANGED <<flaskVars, scanVars>>]_vars

\* A scan, line by line, by each of the three scanners.
SpecScan == Init /\ [][ScanNext /\ UNCHANGED <<flaskVars, apiVars, queryVars>>]_vars

\* The scan of one line, for every line of the bounded alphabet.
SpecClassify == Init /\ [][ClassifyNext /\ UNCHANGED <<flaskVars, apiVars, queryVars>>]_vars

\* ------------------------------------------------------------------ claims
Pending(i) == jobs[i].job_id \notin DOMAIN processing_results
IsError(entry) == "error" \in DOMAIN entry
IsComplete(entry) == "results" \in DOMAIN entry

\* C1: once the registry entry of a job has been written, as a completed
\* result or as an error, no later step of any thread changes it.
C1_EntryWrittenOnce ==
  [][\A j \in DOMAIN processing_results :
       /\ j \in DOMAIN processing_results'
       /\ processing_results'[j] = processing_results[j]]_vars

\* C2: any two submissions receive distinct job ids.
C2_DistinctJobIds ==
  \A i, k \in 1..Len(jobs) : i # k => jobs[i].job_id # jobs[k].job_id

\* C3: get_status reports a job whose scan raised as failed, a job whose
\* scan succeeded as complete, and no terminal status before the worker has
\* stored the outcome.
C3_StatusFollowsOutcome ==
  \A i \in 1..Len(jobs) :
    LET j == jobs[i].job_id IN
    IF Pending(i) THEN get_status(j).status \notin {"complete", "failed"}
    ELSE IF IsError(processing_results[j]) THEN get_status(j).status = "failed"
    ELSE get_status(j).status = "complete"

\* C4: get_results answers NotFound for an id never submitted, a different
\* still-running signal for a submitted job that is not terminal, and a
\* result only for a completed job.
C4_ResultDistinguishes ==
  /\ get_results(UnknownId).http = 404
  /\ \A i \in 1..Len(jobs) :
       Pending(i) => get_results(jobs[i].job_id) # get_results(UnknownId)
  /\ \A j \in QueryIds :
       get_results(j).http = 200 =>
         j \in DOMAIN processing_results /\ IsComplete(processing_results[j])

\* C5: in every job state a status query succeeds, and a result or export
\* query returns the result of a completed job or a structured failure: it
\* never raises.
C5_QueriesNeverRaise ==
  \A j \in QueryIds :
    /\ get_status(j).http = 200
    /\ "raised" \notin DOMAIN get_results(j)
    /\ "raised" \notin DOMAIN export_results(j)
    /\ export_results(j).http = 200 =>
         j \in DOMAIN processing_results /\ IsComplete(processing_results[j])

\* C6: under fair scheduling of the workers every submitted job's id is
\* eventually in the registry, with a result or an error, and no step
\* removes a submitted job or its registry entry.
C6_EventuallyTerminal ==
  /\ \A i \in 1..MaxJobs :
       (Len(jobs) >= i) ~> (Len(jobs) >= i /\ ~Pending(i))
  /\ [][\A i \in 1..Len(jobs) :
          /\ Len(jobs') >= i
          /\ jobs'[i].job_id = jobs[i].job_id
          /\ (~Pending(i) => jobs[i].job_id \in DOMAIN processing_results')]_vars

C6_Witness ==
  /\ Len(jobs) = MaxJobs
  /\ \A i \in 1..Len(jobs) : jobs[i].pc = "done" /\ ~Pending(i)
  /\ \E i \in 1..Len(jobs) : IsComplete(processing_results[jobs[i].job_id])
  /\ \E i \in 1..Len(jobs) : IsError(processing_results[jobs[i].job_id])

\* C7: when a scan has ended, with a result or with a failure, the saved
\* whole-file copy of its upload is no longer on disk.
C7_UploadRemoved ==
  /\ \A i \in 1..Len(jobs) :
       jobs[i].pc = "done" =>
         ~(jobs[i].filepath \in DOMAIN uploads /\ uploads[jobs[i].filepath].owner = i)
  /\ plog.pc = "idle" => TempFiles = {}

\* The lines of an upload in which a signature is found, "\n" dropped.
MatchedLines(raw_bytes) ==
  LET lines == SplitLines(raw_bytes)
      stripped == [k \in 1..Len(lines) |-> SelectSeq(lines[k], LAMBDA t : t # NL)]
  IN SelectSeq(stripped,
       LAMBDA l : \E k \in 1..Len(ERROR_PATTERNS) : Search(ERROR_PATTERNS[k], l))

\* The uploads upload_log has scanned so far.
RawsSeen ==
  {handled[k].raw_bytes : k \in 1..Len(handled)}
    \cup (IF up.pc = "idle" THEN {} ELSE {up.raw_bytes})

OriginalContents(path) ==
  UNION {Range(Contents(handled[k].response.errors)) :
           k \in {n \in 1..Len(handled) : handled[n].filename = path}}
    \cup (IF up.pc # "idle" /\ up.safe_name = path
          THEN Range(Contents(UploadResponse(up.result, up.safe_name).errors))
          ELSE {})

\* C9: every record content of a rescan with all signatures active is the
\* content of a record of the original result returned for that upload.
C9_RescanWithinOriginal ==
  \A r \in 1..MaxRescans :
    (rs[r].pc = "read" /\ rs[r].patterns = AllPatterns) =>
      Range(Contents(RescanReply(r).errors)) \subseteq OriginalContents(rs[r].saved_path)

\* C10: a rescan that is not rejected reads an artifact whose write has
\* completed, never one an upload is writing.
C10_ReadAfterWrite ==
  \A r \in 1..MaxRescans :
    rs[r].pc = "read" => <<rs[r].saved_path, rs[r].raw_bytes>> \in written

\* ------------------------------------------------ claims about the scanners
\* What a scan holds, whichever scanner runs it.
Recs(s) == IF s.scanner = "deep_code" THEN s.acc.results ELSE s.acc.errors
ErrCount(s) ==
  IF s.scanner = "log_filter" THEN s.acc.stats.error_count ELSE s.acc.error_count
TotalLines(s) ==
  CASE s.scanner = "api" -> s.acc.total_lines
    [] s.scanner = "log_filter" -> s.acc.stats.total_lines
    [] s.scanner = "deep_code" -> s.acc.line_count
Cats(s) == IF s.scanner = "log_filter" THEN s.acc.stats.categories ELSE s.acc.categories
Codes(s) == IF s.scanner = "log_filter" THEN s.acc.stats.error_codes ELSE s.acc.error_codes
Hits(s) ==
  CASE s.scanner = "api" -> s.acc.pattern_matches
    [] s.scanner = "log_filter" -> s.acc.stats.pattern_matches
    [] s.scanner = "deep_code" -> EmptyCounter

RECURSIVE SumOf(_)
SumOf(counter) ==
  IF DOMAIN counter = {} THEN 0
  ELSE LET k == CHOOSE x \in DOMAIN counter : TRUE
       IN counter[k] + SumOf([x \in DOMAIN counter \ {k} |-> counter[x]])

MinOf(S) == CHOOSE x \in S : \A y \in S : x <= y

\* The line of a one-line scan, as the scanner searches it.
SearchedLine(s) == IF s.scanner = "deep_code" THEN s.text ELSE RStripNL(s.text)

\* The registered signatures of a scanner and the name a record gives them.
Registered(scanner) ==
  IF scanner = "deep_code" THEN deep_ERROR_PATTERNS ELSE ERROR_PATTERNS
SigName(scanner, sig) == IF scanner = "deep_code" THEN sig.pattern ELSE sig.label

\* The identifiers the caller of a scan has made active.
CallerIds(s) ==
  IF s.scanner # "deep_code" THEN Range(s.selected)
  ELSE IF CustomFilters(s.selected) = <<>>
       THEN {deep_ERROR_PATTERNS[k].pattern : k \in 1..Len(deep_ERROR_PATTERNS)}
  ELSE Range(CustomFilters(s.selected))

\* The registered signatures that are active and found in the line.
Matching(s) ==
  {k \in 1..Len(Registered(s.scanner)) :
     /\ Registered(s.scanner)[k].pattern \in CallerIds(s)
     /\ Search(Registered(s.scanner)[k], SearchedLine(s))}

\* The cap on the stored records of a scan has been exceeded.
CapExceeded(s) == s.scanner = "deep_code" /\ ErrCount(s) > MaxResults

\* C11: after every line of a scan, by any scanner, on any input and any
\* active signature set, the category counts sum to error_count, and
\* error_count is at least the number of stored records, and equal to it
\* while the record cap has not been exceeded.
C11_CountsAgree ==
  sc.pc # "idle" =>
    /\ SumOf(Cats(sc)) = ErrCount(sc)
    /\ ErrCount(sc) >= Len(Recs(sc))
    /\ (~CapExceeded(sc) => ErrCount(sc) = Len(Recs(sc)))

C11_Witness ==
  /\ sc.pc = "done" /\ sc.scanner = "deep_code"
  /\ ErrCount(sc) > Len(Recs(sc))
  /\ \E c \in DOMAIN Cats(sc) : Cats(sc)[c] >= 2
  /\ Cardinality(DOMAIN Cats(sc)) >= 2

\* C12: a line in which two active signatures are found is recorded under
\* the label of the one registered first, and the counter of that
\* signature, and no other, is incremented.
C12_FirstMatchWins ==
  (sc.pc = "done" /\ sc.scanner \in {"api", "log_filter"}
     /\ Cardinality(Matching(sc)) >= 2) =>
    LET A == ERROR_PATTERNS[MinOf(Matching(sc))] IN
    /\ Len(Recs(sc)) = 1
    /\ Recs(sc)[1].matched_pattern = A.label
    /\ \A b \in Matching(sc) \ {MinOf(Matching(sc))} :
         /\ Recs(sc)[1].matched_pattern # ERROR_PATTERNS[b].label
         /\ ERROR_PATTERNS[b].label \notin DOMAIN Hits(sc)
    /\ DOMAIN Hits(sc) = {A.label}
    /\ Hits(sc)[A.label] = 1

C12_Witness ==
  /\ sc.pc = "done" /\ sc.scanner = "log_filter"
  /\ sc.selected = <<"\\bTIMEOUT\\b", "nosuchpattern", "\\bERROR\\b">>
  /\ Cardinality(Matching(sc)) >= 2
  /\ Recs(sc)[1].matched_pattern = "General Error"

\* C13: whatever the order in which the caller lists the active
\* signatures, the recorded match of a line is the earliest registered
\* active signature found in it, and an identifier that is not a registered
\* signature changes nothing: a line in which no registered active signature
\* is found is not recorded.
C13_RegistrationOrder ==
  sc.pc = "done" =>
    IF Matching(sc) = {} THEN Recs(sc) = <<>>
    ELSE /\ Len(Recs(sc)) = 1
         /\ Recs(sc)[1].matched_pattern =
              SigName(sc.scanner, Registered(sc.scanner)[MinOf(Matching(sc))])

\* The category rules of a scanner and the category it gives a line.
RulesOf(scanner) ==
  CASE scanner = "api" -> CATEGORY_KEYWORDS
    [] scanner = "log_filter" -> category_keywords
    [] scanner = "deep_code" -> deep_CATEGORY_KEYWORDS
CategoryOf(scanner, line) ==
  CASE scanner = "api" -> Categorize(line)
    [] scanner = "log_filter" -> categorize_error(line)
    [] scanner = "deep_code" -> deep_categorize_error(line)

\* The rules of which a keyword is a substring of the lower-cased line.
RulesHit(scanner, line) ==
  {k \in 1..Len(RulesOf(scanner)) : RulesOf(scanner)[k].kws \cap LineKeywords(line) # {}}

\* C14: a line that contains keywords of several category rules is never
\* given the category of a rule registered after another rule it contains a
\* keyword of: it is given the category of the first of them; a line that
\* contains no keyword is given 'application'.  The record of a matched
\* line carries that category.
C14_CategoryTieBreak ==
  sc.pc = "done" =>
    LET line == SearchedLine(sc)
        hit == RulesHit(sc.scanner, line)
        category == CategoryOf(sc.scanner, line)
        rules == RulesOf(sc.scanner)
    IN /\ hit = {} => category = "application"
       /\ hit # {} => category \in {rules[k].cat : k \in hit}
       /\ \A x, y \in hit : x < y => category # rules[y].cat
       /\ Recs(sc) # <<>> => Recs(sc)[1].category = category

C14_Witness ==
  /\ sc.pc = "done" /\ sc.scanner = "api" /\ Recs(sc) # <<>>
  /\ Cardinality(RulesHit("api", SearchedLine(sc))) >= 2
  /\ Recs(sc)[1].category = "database"
  /\ "timeout" \in LineKeywords(SearchedLine(sc))

\* The error code a scanner extracts from a line.
CodeOf(scanner, line) ==
  CASE scanner = "api" -> ExtractCode(line)
    [] scanner = "log_filter" -> extract_error_code(line)
    [] scanner = "deep_code" -> deep_extract_error_code(line)

\* The three-digit tokens of a line that start with 4 or 5.
StatusTokens(line) ==
  {g \in UNION {Range(ThreeDigitGroups(line[i])) : i \in 1..Len(line)} : StartsWith45(g)}

HasBracketToken(line) ==
  \E i \in 1..Len(line) : GroupAt("\\[(\\w+)\\]", line, i) # None

\* C15: a line that holds a three-digit token starting with 4 or 5 and a
\* bracketed token, wherever they stand and whatever else the line holds,
\* is given the code HTTP_ followed by the three-digit token.
C15_HttpBeatsBracket ==
  (sc.pc = "done" /\ sc.scanner \in {"api", "log_filter"}) =>
    LET line == SearchedLine(sc) IN
    (StatusTokens(line) # {} /\ HasBracketToken(line)) =>
      /\ CodeOf(sc.scanner, line) \in {"HTTP_" \o g : g \in StatusTokens(line)}
      /\ Recs(sc) # <<>> =>
           Recs(sc)[1].error_code \in {"HTTP_" \o g : g \in StatusTokens(line)}

\* C16: the access-log line, scanned with the default signatures, gives one
\* record matched by 'HTTP Status Code' with error code HTTP_500.
C16_AccessLineScenario ==
  (sc.pc = "done" /\ sc.scanner \in {"api", "log_filter"}
     /\ sc.text = Append(AccessLine, NL) /\ sc.selected = PatternList) =>
    /\ Len(Recs(sc)) = 1
    /\ Recs(sc)[1].matched_pattern = "HTTP Status Code"
    /\ Recs(sc)[1].error_code = "HTTP_500"

\* The default selection of a scanner: every registered signature.
DefaultSelection(scanner) == IF scanner = "deep_code" THEN <<"">> ELSE PatternList

\* C17: the application-log line, scanned with the default signatures and
\* category rules, gives one record matched by the ERROR signature
\* ('General Error'), of category 'database', without error code.
C17_PaymentLineScenario ==
  (sc.pc = "done" /\ sc.text = Append(PaymentLine, NL)
     /\ sc.selected = DefaultSelection(sc.scanner)) =>
    /\ Len(Recs(sc)) = 1
    /\ Recs(sc)[1].matched_pattern =
         SigName(sc.scanner, Sig("\\bERROR\\b", "General Error", "word", {"ERROR"}))
    /\ Recs(sc)[1].category = "database"
    /\ Recs(sc)[1].error_code = None

\* The fallback code patterns of a scanner.
CodePatternsOf(scanner) ==
  CASE scanner = "api" -> CODE_PATTERNS
    [] scanner = "log_filter" -> code_patterns
    [] scanner = "deep_code" -> deep_code_patterns

\* The fallback patterns found in a line.
CodeRulesHit(scanner, line) ==
  {k \in 1..Len(CodePatternsOf(scanner)) :
     SearchGroup(CodePatternsOf(scanner)[k], line, 1) # None}

\* C18: when the HTTP rule gives no code, the code of a line is the token
\* captured by the first fallback pattern found in it, upper-cased, never
\* the token of a later pattern; a line in which no pattern is found has no
\* code.
C18_FallbackOrder ==
  sc.pc = "done" =>
    LET line == SearchedLine(sc)
        hit == CodeRulesHit(sc.scanner, line)
        code == CodeOf(sc.scanner, line)
    IN StatusTokens(line) = {} =>
         /\ hit = {} => code = None
         /\ hit # {} =>
              code = Upper(SearchGroup(CodePatternsOf(sc.scanner)[MinOf(hit)], line, 1))
         /\ Recs(sc) # <<>> => Recs(sc)[1].error_code = code

\* The lines a scan has read so far, and those of them in which one of its
\* filters is found.
LinesRead(s) == Take(SplitLines(s.text), Len(SplitLines(s.text)) - Len(s.rest))
MatchedSoFar(s) ==
  {n \in 1..Len(LinesRead(s)) :
     \E k \in 1..Len(ChooseFilters(s.selected)) :
        Search(ChooseFilters(s.selected)[k], LinesRead(s)[n])}

\* C19: process_log_file stores the first MaxResults matches and no later
\* one, while error_count and the category counts take every match in; and
\* has_more, of process_logs and of get_results, is true exactly when some
\* match is not among the records returned.
C19_CapAndHasMore ==
  (sc.pc # "idle" /\ sc.scanner = "deep_code") =>
    LET matched == MatchedSoFar(sc)
        stored == {Recs(sc)[k].line_number : k \in 1..Len(Recs(sc))}
    IN /\ ErrCount(sc) = Cardinality(matched)
       /\ SumOf(Cats(sc)) = Cardinality(matched)
       /\ Len(Recs(sc)) = Cardinality(stored)
       /\ Len(Recs(sc)) <= MaxResults
       /\ stored = {n \in matched : Cardinality({m \in matched : m < n}) < MaxResults}
       /\ sc.pc = "done" =>
            /\ ProcessLogsBody(CompleteMessage(sc.acc)).has_more
                 = (Cardinality(matched)
                      > Len(ProcessLogsBody(CompleteMessage(sc.acc)).errors))
            /\ ResultsBody(CompleteMessage(sc.acc)).has_more
                 = (Cardinality(matched)
                      > Len(ResultsBody(CompleteMessage(sc.acc)).errors))

C19_Witness ==
  /\ sc.pc = "done" /\ sc.scanner = "deep_code"
  /\ Cardinality(MatchedSoFar(sc)) > MaxResults
  /\ Len(Recs(sc)) = MaxResults
  /\ ProcessLogsBody(CompleteMessage(sc.acc)).has_more

\* C20: the scan of an empty input ends with no line counted, no error, no
\* record, empty category, code and signature maps, has_more false and an
\* error rate of zero.
C20_EmptyInput ==
  (sc.pc = "done" /\ sc.text = <<>>) =>
    /\ TotalLines(sc) = 0
    /\ ErrCount(sc) = 0
    /\ Recs(sc) = <<>>
    /\ DOMAIN Cats(sc) = {} /\ DOMAIN Codes(sc) = {} /\ DOMAIN Hits(sc) = {}
    /\ sc.scanner = "deep_code" =>
         /\ CompleteMessage(sc.acc).error_rate = <<0, 1>>
         /\ ~ProcessLogsBody(CompleteMessage(sc.acc)).has_more
         /\ ~ResultsBody(CompleteMessage(sc.acc)).has_more

C20_Witness ==
  /\ sc.pc = "done" /\ sc.text = <<>> /\ sc.scanner = "deep_code"
  /\ CompleteMessage(sc.acc).total_lines = 0

\* What a scan returned, in one shape for the three scanners.
Summary(s) ==
  [total_lines |-> TotalLines(s), error_count |-> ErrCount(s),
   categories |-> Cats(s), error_codes |-> Codes(s), pattern_matches |-> Hits(s),
   records |-> Recs(s)]

\* The earlier scan remembered had the scanner, the input and the active
\* set of the scan that has just returned.
SameScanAsMemo ==
  /\ sc.pc = "done" /\ memo # <<>>
  /\ memo[1].scanner = sc.scanner /\ memo[1].text = sc.text
  /\ Range(memo[1].selected) = Range(sc.selected)

EmptyActive(s) ==
  IF s.scanner = "deep_code" THEN CustomFilters(s.selected) = <<>>
  ELSE s.selected = <<>>

\* C23: with an empty active signature set every line is counted, no line
\* matches and no record is produced; the empty set is not replaced by the
\* default signatures.
C23_EmptySetNeverMatches ==
  (sc.pc = "done" /\ EmptyActive(sc)) =>
    /\ TotalLines(sc) = Len(SplitLines(sc.text))
    /\ ErrCount(sc) = 0
    /\ Recs(sc) = <<>>

\* C25: process_log_file yields one progress message right after each line
\* whose number is a multiple of the interval, with the lines processed and
\* the errors found up to that line, both non-decreasing, then exactly one
\* complete message, the last, with the final totals.
C25_MessageShape ==
  (sc.pc # "idle" /\ sc.scanner = "deep_code") =>
    LET read == Len(LinesRead(sc))
        progress == read \div ProgressEvery
        done == sc.pc = "done"
    IN /\ Len(yielded) = progress + (IF done THEN 1 ELSE 0)
       /\ \A k \in 1..progress :
            yielded[k] =
              [type |-> "progress", processed |-> k * ProgressEvery,
               errors_found |->
                 Cardinality({n \in MatchedSoFar(sc) : n <= k * ProgressEvery})]
       /\ \A k \in 2..progress :
            /\ yielded[k - 1].processed <= yielded[k].processed
            /\ yielded[k - 1].errors_found <= yielded[k].errors_found
       /\ done =>
            /\ Last(yielded).type = "complete"
            /\ Last(yielded).total_lines = Len(SplitLines(sc.text))
            /\ Last(yielded).total_errors = Cardinality(MatchedSoFar(sc))
            /\ Last(yielded) = process_log_file(sc.text, ChooseFilters(sc.selected),
                                                MaxResults)

C25_Witness ==
  /\ sc.pc = "done" /\ sc.scanner = "deep_code"
  /\ Len(yielded) >= 3
  /\ yielded[1].type = "progress" /\ yielded[2].type = "progress"
  /\ 0 < yielded[1].errors_found
  /\ yielded[1].errors_found < yielded[2].errors_found
  /\ Last(yielded).type = "complete"

\* The scan of a text by a scanner with the active set of the scan at hand.
RunOf(scanner, text) ==
  [scanner |-> scanner, acc |-> ScanOf(scanner, text, sc.selected)]

\* C30: for every sequence of lines and every active signature subset,
\* process_log_stream and _stream_scan_bytes return the same total_lines,
\* error_count, category, code and signature counts and the same records in
\* the same order.
C30_ScannersEquivalent ==
  (sc.pc = "done" /\ sc.scanner = "log_filter") =>
    /\ Summary(sc) = Summary(RunOf("api", sc.text))
    /\ Summary(RunOf("log_filter", ScanLogB \o sc.text))
         = Summary(RunOf("api", ScanLogB \o sc.text))

C30_Witness ==
  /\ sc.pc = "done" /\ sc.scanner = "log_filter"
  /\ Len(Recs(RunOf("api", ScanLogB \o sc.text))) = 2
  /\ Recs(RunOf("api", ScanLogB \o sc.text))[2].error_code # None
  /\ Recs(RunOf("api", ScanLogB \o sc.text))[2].line_number = 3

\* A standard CSV reader on the fragments of a text: outside double quotes
\* a comma ends the field and "\n" ends the row; a double quote opens a
\* quoted field, which the next lone double quote closes; inside it a
\* doubled double quote is one double quote and every other fragment is
\* taken as it is.  The result is the sequence of rows, each the sequence
\* of its fields.
RECURSIVE CsvRead(_, _, _, _, _)
CsvRead(text, quoted, field, row, rows) ==
  IF text = <<>>
  THEN IF field = <<>> /\ row = <<>> THEN rows ELSE Append(rows, Append(row, field))
  ELSE LET t == Head(text)
           rest == Tail(text)
       IN IF quoted
          THEN CASE t = Quote -> CsvRead(rest, FALSE, field, row, rows)
                 [] t = "\"\"" -> CsvRead(rest, TRUE, Append(field, Quote), row, rows)
                 [] t = "\"\"GET" -> CsvRead(rest, TRUE, Append(field, "\"GET"), row, rows)
                 [] t = "/api\"\"" -> CsvRead(rest, TRUE, Append(field, "/api\""), row, rows)
                 [] OTHER -> CsvRead(rest, TRUE, Append(field, t), row, rows)
          ELSE CASE t = Quote -> CsvRead(rest, TRUE, field, row, rows)
                 [] t = "," -> CsvRead(rest, FALSE, <<>>, Append(row, field), rows)
                 [] t = NL -> CsvRead(rest, FALSE, <<>>, <<>>,
                                      Append(rows, Append(row, field)))
                 [] OTHER -> CsvRead(rest, FALSE, Append(field, t), row, rows)

ParseCsv(text) == CsvRead(text, FALSE, <<>>, <<>>, <<>>)

\* C22: for every record of a completed job, one whose content holds a
\* comma and a double quote included, the row export_results writes is read
\* back by a standard CSV reader with the record's content in its fourth
\* field.
C22_CsvRoundTrip ==
  \A job_id \in DOMAIN processing_results :
    IsComplete(processing_results[job_id]) =>
      LET results == processing_results[job_id].results
          rows == ParseCsv(export_results(job_id).csv)
      IN /\ Len(rows) = Len(results) + 1
         /\ \A k \in 1..Len(results) :
              /\ Len(rows[k + 1]) = 4
              /\ rows[k + 1][4] = results[k].content

\* ------------------------------------------------- claims about the index
\* The uploads accepted so far; the build thread of the i-th is rag[i].
UploadsBegun == Len(handled) + (IF up.pc # "idle" THEN 1 ELSE 0)

\* The matched lines of the upload the state's filename was last set by.
CurrentLines == IF up.pc # "idle" THEN up.error_lines ELSE rag[Len(rag)].error_lines

\* An upload has been accepted and its build thread has not finished.
BuildInProgress == up.pc # "idle" \/ \E i \in 1..Len(rag) : rag[i].pc # "done"

\* The step is taken by the build thread of the most recent upload.
StepOfLatestBuild ==
  /\ up.pc = "idle" /\ Len(rag) > 0
  /\ rag'[Len(rag)] # rag[Len(rag)]

\* C24: the index status is idle, building, ready or error; it becomes
\* building only when an upload is accepted or the build of the most recent
\* upload starts, and it leaves building only when the build started for
\* the most recent upload completes or fails.
C24_StatusTransitions ==
  /\ [](state.rag_status \in {"idle", "building", "ready", "error"})
  /\ [][/\ (state.rag_status # "building" /\ state'.rag_status = "building") =>
            (up.pc = "idle" /\ up'.pc # "idle") \/ StepOfLatestBuild
        /\ (state.rag_status = "building" /\ state'.rag_status # "building") =>
            /\ state'.rag_status \in {"ready", "error"}
            /\ StepOfLatestBuild
            /\ rag'[Len(rag)].pc = "done"]_vars

\* C26: whenever /rag-status reports 'ready', the chain of the state was
\* built from the matched lines of the upload the state's filename names.
C26_ReadyMeansCurrentChain ==
  rag_status.status = "ready" =>
    /\ UploadsBegun > 0
    /\ state.qa_chain = Chain(CurrentLines, rag_status.filename)

\* C29: a question is forwarded to the chain only when the status is not
\* 'building' and a chain is installed; a query made while a build is in
\* progress is answered 'still building', a query made before any upload
\* is answered 'no log', and no query changes the state.
C29_QueryGate ==
  [][/\ (qr.pc = "forward" /\ qr'.pc = "idle") =>
          state.rag_status # "building" /\ state.qa_chain # NoChain
     /\ (qr.pc = "idle" /\ qr' # qr /\ BuildInProgress) =>
          qr'.pc = "idle" /\ qr'.reply = StillBuilding
     /\ (qr' # qr /\ UploadsBegun = 0) =>
          qr'.pc = "checked" \/ (qr'.pc = "idle" /\ qr'.reply = NoLog)
     /\ qr' # qr => UNCHANGED apiVars]_vars

\* C27: the filename of a rescan result is the name of the upload whose
\* artifact the rescan read, and the state's filename and saved_path never
\* name different uploads.
C27_RescanNamesItsUpload ==
  /\ state.saved_path # None => state.filename = state.saved_path
  /\ \A r \in 1..MaxRescans :
       rs[r].pc = "read" => RescanReply(r).filename = rs[r].saved_path

\* The rescan r reads the artifact of the last upload, all signatures
\* active, while no upload is being handled.
ReadsLastUpload(r) ==
  /\ rs[r].pc = "checked" /\ rs'[r].pc = "read"
  /\ rs[r].patterns = AllPatterns
  /\ up.pc = "idle" /\ handled # <<>>
  /\ rs[r].saved_path = Last(handled).filename

\* C28: after an upload whose scan found N matches, a rescan with all
\* signatures active and no upload in between reports total_lines = N and
\* error_count = N, and the contents it finds are those of the N original
\* matches in the same order.
C28_RescanRoundTrip ==
  [][\A r \in 1..MaxRescans :
       ReadsLastUpload(r) =>
         LET N == Last(handled).response.error_count
             original == MatchedLines(Last(handled).raw_bytes)
             found == StreamScanBytes(rs'[r].raw_bytes, rs'[r].patterns)
             answer == RescanResponse(found, state'.filename)
         IN /\ Len(original) = N
            /\ found.total_lines = N /\ found.error_count = N
            /\ Contents(found.errors) = original
            /\ answer.total_lines = N /\ answer.error_count = N
            /\ Contents(answer.errors) = Take(original, ReturnCap)]_vars

C28_Witness ==
  \E r \in 1..MaxRescans :
    /\ rs[r].pc = "read" /\ rs[r].patterns = AllPatterns
    /\ up.pc = "idle" /\ handled # <<>>
    /\ rs[r].saved_path = Last(handled).filename
    /\ Last(handled).response.error_count = 3
    /\ RescanReply(r).error_count = 3
    /\ Len(RescanReply(r).errors) = 2
=============================================================================
